---- MODULE Spec2Model ----
(***************************************************************************)
(* A model of packages/server/src/server.rs: the axum handlers             *)
(* render_handler and handle_server_fns_inner, and RenderHandleState with   *)
(* its lazily initialised SSR engine cell.                                  *)
(*                                                                          *)
(* The specifications that share the module:                                *)
(*   SpecRender    render_handler (Render Dispatch)                         *)
(*   Spec          handle_server_fns_inner, one request, all inputs         *)
(*   SpecConc      handle_server_fns_inner, concurrent requests             *)
(*   SpecStrat     handle_server_fns_inner, one request run by each of the  *)
(*                 two execution strategies, with cancellation              *)
(*   SpecCell      RenderHandleState::ssr_state and Clone                   *)
(*   SpecBuild     the same, with with_ssr_state                            *)
(*   SpecClassify  both handlers, given the same Accept header              *)
(* Each leaves the other components' variables unchanged.                   *)
(***************************************************************************)
EXTENDS Integers, Sequences, FiniteSets, TLC

\* Option<T>: None, or Some(x); Val(o) is the x of a Some(x)
None == <<>>
Some(x) == <<x>>
Val(o) == o[1]

(***************************************************************************)
(* The state: one group of variables per component.                         *)
(***************************************************************************)
VARIABLES
    racc,       \* racc[q]: the Accept header of render request q
    rpc,        \* rpc[q]: "new", "awaiting" (in state.respond(..).await), "done"
    rcalls,     \* rcalls[q]: sequence of the requests passed to the engine's respond by q's handler
    rout,       \* rout[q]: what the engine's respond returned for q (None before)
    rres        \* rres[q]: the handler's response (None before)

renderVars == <<racc, rpc, rcalls, rout, rres>>

VARIABLES
    req,        \* req[r]: the request r carries (NoReq: r is not issued)
    user,       \* user[r]: the user code r meets: what the hook and the procedure may do
    strat,      \* strat[r]: how r's future is run: "direct" (line 165) or "local" (line 148)
    handler,    \* handler[r]: "running", or "dropped" once r was cancelled
    pc,         \* pc[r]: "absent", "new", "pending", "polling", "done"; "finished"
                \*   when a spawned task has its output; "cancelled"
    ctx,        \* ctx[r]: the DioxusServerContext built for r (None before)
    saved,      \* saved[r]: accepts_html and referrer, as stored at lines 97-103
    overrides,  \* overrides[c]: the headers of context c's response parts
    ovstatus,   \* ovstatus[c]: the status override of context c's response parts
    task,       \* task[r]: the output of the task spawned for r (None before)
    ambient,    \* ambient[w]: what worker w's thread-local SERVER_CONTEXT holds
    on,         \* on[r]: the worker polling r's future (None when not polled)
    prev,       \* prev[r]: the context the running poll of r will restore
    res,        \* res[r]: the response returned for r (None before)
    hist        \* hist[r]: what has happened to r (history, read by the properties)

fnsVars == <<req, user, strat, handler, pc, ctx, saved, overrides, ovstatus, task,
             ambient, on, prev, res, hist>>

VARIABLES
    live,       \* live: the handles that exist
    cell,       \* cell[h]: handle h's OnceCell: its state and its value
    built,      \* built[h]: engines SsrRenderer::shared has built for h
    engines,    \* engines: engines built so far, over all handles
    tpc,        \* tpc[t]: "idle", "get" (in get_or_init), "init" (running the closure), "set"
    th,         \* th[t]: the handle thread t's call is on
    tnew,       \* tnew[t]: the engine t's closure has built and not yet stored
    tret,       \* tret[t]: the engine each finished call of t returned, in order
    calls,      \* calls[h]: the engines ssr_state() has returned on h, in order
    given,      \* given[h]: the engines with_ssr_state has put in h's cell, in order, each
                \*   with the calls returned and the engines built on h until then
    dropped,    \* dropped[h]: the engines h's cell held when with_ssr_state replaced them
    panics      \* panics: with_ssr_state calls that ended in panic!("SSRState already set")

cellVars == <<live, cell, built, engines, tpc, th, tnew, tret, calls,
              given, dropped, panics>>

(***************************************************************************)
(* Header values are byte strings.  A value is a sequence of one-character  *)
(* strings; "0xFF" stands for one byte outside visible ASCII (obs-text),    *)
(* which http::HeaderValue admits and HeaderValue::to_str rejects.          *)
(***************************************************************************)
OpaqueByte == "0xFF"

UpperCase == <<"A","B","C","D","E","F","G","H","I","J","K","L","M",
               "N","O","P","Q","R","S","T","U","V","W","X","Y","Z">>
LowerCase == <<"a","b","c","d","e","f","g","h","i","j","k","l","m",
               "n","o","p","q","r","s","t","u","v","w","x","y","z">>

\* u8::to_ascii_lowercase
LowerChar(c) ==
    IF \E i \in 1..Len(UpperCase) : UpperCase[i] = c
    THEN LowerCase[CHOOSE i \in 1..Len(UpperCase) : UpperCase[i] = c]
    ELSE c

\* str::to_ascii_lowercase
ToAsciiLowercase(s) == [i \in 1..Len(s) |-> LowerChar(s[i])]

\* str::contains(&str)
Contains(s, pat) ==
    \E i \in 0..(Len(s) - Len(pat)) : SubSeq(s, i + 1, i + Len(pat)) = pat

\* HeaderValue::to_str: Ok only when every byte is visible ASCII
ToStrOk(v) == \A i \in 1..Len(v) : v[i] # OpaqueByte

TextHtml == <<"t","e","x","t","/","h","t","m","l">>

AcceptHtml   == TextHtml
AcceptUpper  == <<"T","E","X","T","/","H","T","M","L">>
AcceptJson   == <<"a","p","p","l","i","c","a","t","i","o","n","/","j","s","o","n">>
AcceptList   == <<"*","/","*",",">> \o TextHtml
AcceptOpaque == TextHtml \o <<";">> \o <<OpaqueByte>>
AcceptBadJson == <<"j","s","o","n">> \o <<OpaqueByte>>

\* The Accept header of a request: absent, or one of these values.
AcceptValues == {AcceptHtml, AcceptUpper, AcceptJson, AcceptList,
                 AcceptOpaque, AcceptBadJson}
AcceptInputs == {None} \cup {Some(v) : v \in AcceptValues}

(***************************************************************************)
(* Status codes the handlers name.                                          *)
(***************************************************************************)
NOT_ACCEPTABLE == 406
INTERNAL_SERVER_ERROR == 500
FOUND == 302
BAD_REQUEST == 400

EmptyBody == <<>>

(***************************************************************************)
(* Render Dispatch: render_handler.                                         *)
(***************************************************************************)
NumRenderReqs == 2
RenderReqs == 1..NumRenderReqs

\* What state.respond(request) can return: Ok(response), Err(Error::Http(s)),
\* or Err of any other variant.
RenderOutcomes ==
    {[kind |-> "ok", status |-> s, body |-> <<"html">>] : s \in {200, 404}}
    \cup {[kind |-> "http", status |-> s, body |-> <<"err">>] : s \in {404, 503}}
    \cup {[kind |-> "other", status |-> 0, body |-> <<"err">>]}


InitRender ==
    /\ racc \in [RenderReqs -> AcceptInputs]
    /\ rpc = [q \in RenderReqs |-> "new"]
    /\ rcalls = [q \in RenderReqs |-> <<>>]
    /\ rout = [q \in RenderReqs |-> None]
    /\ rres = [q \in RenderReqs |-> None]

\* lines 56-61: the request is refused unless Accept is absent or is a string
\* whose lower-cased form contains "text/html"
RenderRefusesMissingReturn(acc) == FALSE
RenderRefuses(acc) ==
    /\ acc # None
    /\ ~(ToStrOk(Val(acc)) /\ Contains(ToAsciiLowercase(Val(acc)), TextHtml))

\* lines 64-72: the response built from a failed respond
MapErrIgnoresStatus(out) ==
    [status |-> INTERNAL_SERVER_ERROR, body |-> EmptyBody]
MapErr(out) ==
    [status |-> IF out.kind = "http" THEN out.status ELSE INTERNAL_SERVER_ERROR,
     body |-> EmptyBody]

\* line 63: what the handler returns once respond has returned
RenderResultRewritesOk(out) ==
    IF out.kind = "ok" THEN [status |-> 200, body |-> out.body] ELSE MapErr(out)
RenderResult(out) ==
    IF out.kind = "ok" THEN [status |-> out.status, body |-> out.body]
    ELSE MapErr(out)

\* render_handler up to its await: refuse with 406, or call state.respond(request)
RenderHandler(q) ==
    /\ rpc[q] = "new"
    /\ IF RenderRefuses(racc[q])
       THEN /\ rres' = [rres EXCEPT ![q] =
                            Some([status |-> NOT_ACCEPTABLE, body |-> EmptyBody])]
            /\ rpc' = [rpc EXCEPT ![q] = "done"]
            /\ UNCHANGED rcalls
       ELSE /\ rcalls' = [rcalls EXCEPT ![q] = Append(@, q)]
            /\ rpc' = [rpc EXCEPT ![q] = "awaiting"]
            /\ UNCHANGED rres
    /\ UNCHANGED <<racc, rout>>
    /\ UNCHANGED <<fnsVars, cellVars>>

\* state.respond(request).await completes; the handler maps and returns
RenderRespondReturns(q) ==
    /\ rpc[q] = "awaiting"
    /\ \E out \in RenderOutcomes :
          /\ rout' = [rout EXCEPT ![q] = Some(out)]
          /\ rres' = [rres EXCEPT ![q] = Some(RenderResult(out))]
    /\ rpc' = [rpc EXCEPT ![q] = "done"]
    /\ UNCHANGED <<racc, rcalls>>
    /\ UNCHANGED <<fnsVars, cellVars>>

NextRender ==
    \/ \E q \in RenderReqs : RenderHandler(q)
    \/ \E q \in RenderReqs : RenderRespondReturns(q)

(***************************************************************************)
(* http::HeaderMap, as far as the handlers use it.  A map gives each header *)
(* name the sequence of its values; the empty sequence is an absent header. *)
(***************************************************************************)
HeaderNames == {"location", "set-cookie"}
NameOrder == <<"location", "set-cookie">>
EmptyHeaders == [n \in HeaderNames |-> <<>>]

\* HeaderMap::get: the first value of the name, if any
Get(m, n) == IF m[n] = <<>> THEN None ELSE Some(m[n][1])
\* HeaderMap::insert: the value replaces every value of the name
Insert(m, n, v) == [m EXCEPT ![n] = <<v>>]
\* HeaderMap::append: the value is added after the values of the name
AppendValue(m, n, v) == [m EXCEPT ![n] = Append(@, v)]

\* HeaderMap::drain: every value paired with its name, the name given only
\* with the first value of each header (None for the values that follow)
RECURSIVE DrainFrom(_, _)
DrainFrom(m, k) ==
    IF k > Len(NameOrder) THEN <<>>
    ELSE LET n == NameOrder[k]
             items == [i \in 1..Len(m[n]) |->
                          [name |-> IF i = 1 THEN Some(n) ELSE None, value |-> m[n][i]]]
         IN items \o DrainFrom(m, k + 1)
Drain(m) == DrainFrom(m, 1)

\* impl Extend<(Option<HeaderName>, T)> for HeaderMap: an item with a name
\* is inserted (an occupied entry has all its values replaced), an item
\* without a name is appended to the entry of the last name seen
RECURSIVE ExtendAppending(_, _, _)
ExtendAppending(m, items, cur) ==
    IF items = <<>> THEN m
    ELSE LET it == Head(items)
             n == IF it.name # None THEN Val(it.name) ELSE cur
         IN ExtendAppending(AppendValue(m, n, it.value), Tail(items), n)
RECURSIVE ExtendFrom(_, _, _)
ExtendFrom(m, items, cur) ==
    IF items = <<>> THEN m
    ELSE LET it == Head(items)
         IN IF it.name # None
            THEN ExtendFrom(Insert(m, Val(it.name), it.value), Tail(items),
                            Val(it.name))
            ELSE ExtendFrom(AppendValue(m, cur, it.value), Tail(items), cur)
Extend(m, items) == ExtendFrom(m, items, "")

(***************************************************************************)
(* Procedure Dispatch: handle_server_fns_inner.                             *)
(***************************************************************************)
NumReqs == 2
Reqs == 1..NumReqs
NumWorkers == 2
Workers == 1..NumWorkers
MaxProcOps == 2       \* header mutations one procedure makes through its context
MaxSuspends == 1      \* times one procedure's future returns Pending

KnownPath == "/api/known"
MissingPath == "/api/missing"
Paths == {KnownPath, MissingPath}
\* the paths server_fn's registry holds
Registry == {KnownPath}

RefererValue == "https://example.com/form"
RefererInputs == {None, Some(RefererValue)}

NoReq == [path |-> "", accept |-> None, referer |-> None]
ReqInputs == [path : Paths, accept : AcceptInputs, referer : RefererInputs]

\* What a procedure (service.run) can answer: its status and headers.
ProcValue == [n \in HeaderNames |-> IF n = "location" THEN "/other" ELSE "a=1"]
ProcResponses ==
    {[status |-> s,
      headers |-> [n \in HeaderNames |-> IF n \in hs THEN <<ProcValue[n]>> ELSE <<>>],
      body |-> <<"out">>] : s \in {200, 303}, hs \in SUBSET HeaderNames}

\* What user code can do to the response parts of a context it holds.
OvValues == {"c1", "c2"}
HeaderOps == [op : {"insert", "append"}, name : HeaderNames, value : OvValues,
              status : {0}]
StatusOps == [op : {"status"}, name : {""}, value : {""}, status : {418}]
Ops == HeaderOps \cup StatusOps
NoOp == [op |-> "nop", name |-> "", value |-> "", status |-> 0]
ApplyOp(m, o) ==
    CASE o.op = "insert" -> Insert(m, o.name, o.value)
      [] o.op = "append" -> AppendValue(m, o.name, o.value)
      [] OTHER -> m
ApplyStatusOp(st, o) == IF o.op = "status" THEN Some(o.status) ELSE st

\* The context the thread-local SERVER_CONTEXT holds when nothing is bound.
DefaultCtx == 0
CtxIds == {DefaultCtx} \cup Reqs

\* User code that may do anything the model covers, and user code that sets
\* one cookie and answers 200 with no header.
AnyUser == [hook |-> {NoOp} \cup Ops, ops |-> Ops,
            answers |-> ProcResponses]
PlainUser ==
    [hook |-> {NoOp},
     ops |-> {[op |-> "insert", name |-> "set-cookie", value |-> "c1", status |-> 0]},
     answers |-> {p \in ProcResponses :
                     p.status = 200 /\ p.headers = EmptyHeaders}]
NoUser == [hook |-> {}, ops |-> {}, answers |-> {}]

\* hist[r]: calls of the hook and of service.run, header changes and
\* suspensions of the procedure, the contexts its lookups returned, the
\* headers r's user code wrote (whatever context it reached), the procedure's
\* own response, the response after the redirect heuristic, the context's
\* headers as the merge found them, the merges done, the steps taken in
\* order, whether the context was new when the hook got it, the context the
\* hook got, the contexts the polls bound, the context the merge read, and
\* that context's status override as the merge left it
NoHist == [hook |-> 0, runs |-> 0, ops |-> 0, susp |-> 0, lookups |-> {},
           wrote |-> EmptyHeaders, proc |-> None, heur |-> None, ovm |-> None,
           merges |-> 0, log |-> <<>>, fresh |-> FALSE, hookctx |-> None,
           bound |-> {}, mctx |-> None, ovs |-> None]


InitFnsRest ==
    /\ ctx = [r \in Reqs |-> None]
    /\ saved = [r \in Reqs |-> None]
    /\ handler = [r \in Reqs |-> "running"]
    /\ overrides = [c \in CtxIds |-> EmptyHeaders]
    /\ ovstatus = [c \in CtxIds |-> None]
    /\ task = [r \in Reqs |-> None]
    /\ ambient = [w \in Workers |-> DefaultCtx]
    /\ on = [r \in Reqs |-> None]
    /\ prev = [r \in Reqs |-> None]
    /\ res = [r \in Reqs |-> None]
    /\ hist = [r \in Reqs |-> NoHist]

\* One request, every input.
InitFns ==
    /\ \E i \in ReqInputs : req = [r \in Reqs |-> IF r = 1 THEN i ELSE NoReq]
    /\ user = [r \in Reqs |-> IF r = 1 THEN AnyUser ELSE NoUser]
    /\ pc = [r \in Reqs |-> IF r = 1 THEN "new" ELSE "absent"]
    /\ strat = [r \in Reqs |-> "direct"]
    /\ InitFnsRest

\* Every request issued, each to the registered procedure as a form post.
ConcInput == [path |-> KnownPath, accept |-> Some(AcceptHtml), referer |-> Some(RefererValue)]
InitConc ==
    /\ req = [r \in Reqs |-> ConcInput]
    /\ user = [r \in Reqs |-> PlainUser]
    /\ pc = [r \in Reqs |-> "new"]
    /\ strat = [r \in Reqs |-> "direct"]
    /\ InitFnsRest

\* The same request handled twice, once by each arm of lines 145-166:
\* request 1 awaited directly, request 2 spawned and joined.
StratInputs ==
    {i \in ReqInputs : i.accept \in {None, Some(AcceptHtml)} /\ i.referer # None}
StratUser ==
    [hook |-> {NoOp, [op |-> "insert", name |-> "location", value |-> "c1", status |-> 0]},
     ops |-> {[op |-> "append", name |-> "set-cookie", value |-> "c1", status |-> 0]}
                \cup StatusOps,
     answers |-> {p \in ProcResponses :
                     \/ p.status = 200 /\ p.headers = EmptyHeaders
                     \/ p.status = 303 /\ p.headers["location"] # <<>>
                                       /\ p.headers["set-cookie"] = <<>>}]
InitStrat ==
    /\ \E i \in StratInputs : req = [r \in Reqs |-> IF r \in {1, 2} THEN i ELSE NoReq]
    /\ user = [r \in Reqs |-> IF r \in {1, 2} THEN StratUser ELSE NoUser]
    /\ pc = [r \in Reqs |-> IF r \in {1, 2} THEN "new" ELSE "absent"]
    /\ strat = [r \in Reqs |-> IF r = 2 THEN "local" ELSE "direct"]
    /\ InitFnsRest

\* line 90-91: server_fn::axum::get_server_fn_service(&path_string).is_some()
GetServerFnServiceAlways(p) == TRUE
GetServerFnService(p) == p \in Registry

\* line 93: DioxusServerContext::new(parts), a context of the request's own
NewContext(r) == r

\* lines 97-102
AcceptsHtml(acc) ==
    /\ acc # None
    /\ ToStrOk(Val(acc))
    /\ Contains(Val(acc), TextHtml)

\* lines 126-141: the body of the 400 response
NotFoundBody(p) ==
    <<"No server function found for path: ", p,
      "\nYou may need to rebuild your wasm binary to update a server function link or make sure the prefix your server and client use for server functions match.">>

\* lines 110-118: the redirect heuristic
RedirectAlways(r0, sv) ==
    IF sv.accepts_html /\ sv.referrer # None
    THEN [r0 EXCEPT !.status = FOUND,
                    !.headers = Insert(@, "location", Val(sv.referrer))]
    ELSE r0
RedirectKeepsStatus(r0, sv) ==
    IF sv.accepts_html /\ sv.referrer # None /\ Get(r0.headers, "location") = None
    THEN [r0 EXCEPT !.headers = Insert(@, "location", Val(sv.referrer))]
    ELSE r0
Redirect(r0, sv) ==
    IF sv.accepts_html /\ sv.referrer # None /\ Get(r0.headers, "location") = None
    THEN [r0 EXCEPT !.status = FOUND,
                    !.headers = Insert(@, "location", Val(sv.referrer))]
    ELSE r0

\* lines 121-122: res.headers_mut().extend(res_options.headers.drain());
\* parts are the context's response parts, a status override and headers
MergeNothing(r0, parts) == r0
MergeAppliesStatus(r0, parts) ==
    [r0 EXCEPT !.headers = Extend(@, Drain(parts.headers)),
               !.status = IF parts.status = None THEN @ ELSE Val(parts.status)]
Merge(r0, parts) == [r0 EXCEPT !.headers = Extend(@, Drain(parts.headers))]

\* line 94: the context the hook is called with
HookTargetDefault(r) == DefaultCtx
HookTarget(r) == NewContext(r)

\* line 121: the context whose response parts the merge reads
MergeSourceDefault(r) == DefaultCtx
MergeSource(r) == Val(ctx[r])

\* lines 87-106: the lookup; for a registered path the context, the hook, the
\* stored Accept and Referer and the procedure's future (service.run(req)
\* wrapped with the context); for any other path the 400 response
Begin(r) ==
    /\ pc[r] = "new"
    /\ IF GetServerFnService(req[r].path)
       THEN /\ ctx' = [ctx EXCEPT ![r] = Some(NewContext(r))]
            /\ \E o \in user[r].hook :
                  /\ overrides' = [[overrides EXCEPT ![NewContext(r)] = EmptyHeaders]
                                       EXCEPT ![HookTarget(r)] = ApplyOp(@, o)]
                  /\ ovstatus' = [[ovstatus EXCEPT ![NewContext(r)] = None]
                                      EXCEPT ![HookTarget(r)] = ApplyStatusOp(@, o)]
                  /\ hist' = [hist EXCEPT ![r].hook = @ + 1,
                                          ![r].runs = @ + 1,
                                          ![r].wrote = ApplyOp(@, o),
                                          ![r].log = Append(@, "hook"),
                                          ![r].fresh = NewContext(r) \notin
                                              {Val(ctx[r2]) : r2 \in {r3 \in Reqs : ctx[r3] # None}},
                                          ![r].hookctx = Some(HookTarget(r))]
            /\ saved' = [saved EXCEPT ![r] =
                            Some([accepts_html |-> AcceptsHtml(req[r].accept),
                                  referrer |-> req[r].referer])]
            /\ pc' = [pc EXCEPT ![r] = "pending"]
            /\ UNCHANGED res
       ELSE /\ res' = [res EXCEPT ![r] =
                          Some([status |-> BAD_REQUEST, headers |-> EmptyHeaders,
                                body |-> NotFoundBody(req[r].path)])]
            /\ pc' = [pc EXCEPT ![r] = "done"]
            /\ UNCHANGED <<ctx, overrides, ovstatus, saved, hist>>
    /\ UNCHANGED <<req, user, strat, handler, task, ambient, on, prev>>
    /\ UNCHANGED <<renderVars, cellVars>>

(***************************************************************************)
(* Context-Scoped Execution: ProvideServerContext wraps the procedure's     *)
(* future.  Each poll of the wrapper binds its context in the polling       *)
(* worker's SERVER_CONTEXT for the length of that poll and puts back what   *)
(* was there when the poll ends; server_context() reads the slot.           *)
(***************************************************************************)
WorkerFree(w) == \A r \in Reqs : on[r] # Some(w)

\* what a poll of request r's wrapper binds: the context given at line 106
BindNothing(r, w) == ambient[w]
Bind(r, w) == Val(ctx[r])

\* line 148: spawn_local runs the task on the thread that spawned it
LocalWorkers == {1}

\* a worker starts a poll of r's future: the first one, or a resumption
PollBegin(r, w) ==
    /\ pc[r] = "pending"
    /\ WorkerFree(w)
    /\ strat[r] = "local" => w \in LocalWorkers
    /\ prev' = [prev EXCEPT ![r] = Some(ambient[w])]
    /\ ambient' = [ambient EXCEPT ![w] = Bind(r, w)]
    /\ on' = [on EXCEPT ![r] = Some(w)]
    /\ pc' = [pc EXCEPT ![r] = "polling"]
    /\ hist' = [hist EXCEPT ![r].bound = @ \cup {Bind(r, w)},
                            ![r].log = IF Len(@) = 1 THEN Append(@, "execute") ELSE @]
    /\ UNCHANGED <<req, user, strat, handler, ctx, saved, overrides, ovstatus, task, res>>
    /\ UNCHANGED <<renderVars, cellVars>>

\* the procedure, while polled, looks its context up (server_context()) and
\* changes the headers of that context's response parts
ProcStep(r, o) ==
    /\ pc[r] = "polling"
    /\ o \in user[r].ops
    /\ hist[r].ops < MaxProcOps
    /\ LET c == ambient[Val(on[r])]
       IN /\ overrides' = [overrides EXCEPT ![c] = ApplyOp(@, o)]
          /\ ovstatus' = [ovstatus EXCEPT ![c] = ApplyStatusOp(@, o)]
          /\ hist' = [hist EXCEPT ![r].ops = @ + 1,
                                  ![r].lookups = @ \cup {c},
                                  ![r].wrote = ApplyOp(@, o)]
    /\ UNCHANGED <<req, user, strat, handler, pc, ctx, saved, task, ambient, on, prev, res>>
    /\ UNCHANGED <<renderVars, cellVars>>

\* the procedure's future returns Pending: the poll ends, the slot is restored
PollPending(r) ==
    /\ pc[r] = "polling"
    /\ hist[r].susp < MaxSuspends
    /\ ambient' = [ambient EXCEPT ![Val(on[r])] = Val(prev[r])]
    /\ on' = [on EXCEPT ![r] = None]
    /\ prev' = [prev EXCEPT ![r] = None]
    /\ pc' = [pc EXCEPT ![r] = "pending"]
    /\ hist' = [hist EXCEPT ![r].susp = @ + 1]
    /\ UNCHANGED <<req, user, strat, handler, ctx, saved, overrides, ovstatus, task, res>>
    /\ UNCHANGED <<renderVars, cellVars>>

\* lines 106-124: the procedure's future returns Ready(res); the slot is
\* restored, the redirect heuristic runs, the context's headers are drained
\* into the response, and the response is the future's output: what the
\* handler returns (line 165), or what the spawned task finishes with
Complete(r) ==
    /\ pc[r] = "polling"
    /\ \E p \in user[r].answers :
          LET h == Redirect(p, Val(saved[r]))
              c == MergeSource(r)
              out == Merge(h, [status |-> ovstatus[c], headers |-> overrides[c]])
          IN /\ IF strat[r] = "local"
                THEN /\ task' = [task EXCEPT ![r] = Some(out)]
                     /\ pc' = [pc EXCEPT ![r] = "finished"]
                     /\ UNCHANGED res
                ELSE /\ res' = [res EXCEPT ![r] = Some(out)]
                     /\ pc' = [pc EXCEPT ![r] = "done"]
                     /\ UNCHANGED task
             /\ hist' = [hist EXCEPT ![r].proc = Some(p), ![r].heur = Some(h),
                                     ![r].ovm = Some(overrides[c]),
                                     ![r].merges = @ + 1,
                                     ![r].log = @ \o <<"heuristic", "merge">>,
                                     ![r].mctx = Some(c),
                                     ![r].ovs = ovstatus[c]]
             /\ overrides' = [overrides EXCEPT ![c] = EmptyHeaders]
    /\ ambient' = [ambient EXCEPT ![Val(on[r])] = Val(prev[r])]
    /\ on' = [on EXCEPT ![r] = None]
    /\ prev' = [prev EXCEPT ![r] = None]
    /\ UNCHANGED <<req, user, strat, handler, ctx, saved, ovstatus>>
    /\ UNCHANGED <<renderVars, cellVars>>

\* line 149: what the join gives the handler, f.unwrap()
JoinOutputFallback(t) ==
    [status |-> INTERNAL_SERVER_ERROR, headers |-> EmptyHeaders, body |-> <<"error">>]
JoinOutput(t) == t

\* lines 148-150: the handler, awaiting the JoinHandle of the task it
\* spawned, gets the task's output and returns it
Join(r) ==
    /\ pc[r] = "finished"
    /\ handler[r] = "running"
    /\ res' = [res EXCEPT ![r] = Some(JoinOutput(Val(task[r])))]
    /\ pc' = [pc EXCEPT ![r] = "done"]
    /\ UNCHANGED <<req, user, strat, handler, ctx, saved, overrides, ovstatus, task,
                   ambient, on, prev, hist>>
    /\ UNCHANGED <<renderVars, cellVars>>

\* The transport drops the handler's future while it is suspended awaiting
\* the procedure.  Awaited directly (line 165) the procedure's future is
\* part of the handler's and is dropped with it.  A spawned task (line 148)
\* is not: dropping its JoinHandle detaches the task, which runs on.
DetachesAlways(st) == TRUE
Detaches(st) == st = "local"

Cancel(r) ==
    /\ pc[r] = "pending"
    /\ handler[r] = "running"
    /\ handler' = [handler EXCEPT ![r] = "dropped"]
    /\ pc' = [pc EXCEPT ![r] = IF Detaches(strat[r]) THEN @ ELSE "cancelled"]
    /\ UNCHANGED <<req, user, strat, ctx, saved, overrides, ovstatus, task,
                   ambient, on, prev, res, hist>>
    /\ UNCHANGED <<renderVars, cellVars>>

NextFns ==
    \/ \E r \in Reqs : Begin(r)
    \/ \E r \in Reqs, w \in Workers : PollBegin(r, w)
    \/ \E r \in Reqs, o \in Ops : ProcStep(r, o)
    \/ \E r \in Reqs : PollPending(r)
    \/ \E r \in Reqs : Complete(r)

(***************************************************************************)
(* Rendering Cache Handle: RenderHandleState and its ssr_state cell, a      *)
(* once_cell::sync::OnceCell<Arc<SsrRenderer>>.                             *)
(***************************************************************************)
NumHandles == 2
Handles == 1..NumHandles
NumThreads == 2
Threads == 1..NumThreads
MaxCalls == 2         \* ssr_state() calls one thread makes

EmptyCell == [state |-> "incomplete", value |-> None]


InitCell ==
    /\ live = {1}
    /\ cell = [h \in Handles |-> EmptyCell]
    /\ built = [h \in Handles |-> 0]
    /\ engines = 0
    /\ tpc = [t \in Threads |-> "idle"]
    /\ th = [t \in Threads |-> None]
    /\ tnew = [t \in Threads |-> None]
    /\ tret = [t \in Threads |-> <<>>]
    /\ calls = [h \in Handles |-> <<>>]
    /\ given = [h \in Handles |-> <<>>]
    /\ dropped = [h \in Handles |-> {}]
    /\ panics = 0

\* line 215: a thread calls ssr_state() on a handle
SsrStateCall(t, h) ==
    /\ tpc[t] = "idle"
    /\ h \in live
    /\ Len(tret[t]) < MaxCalls
    /\ tpc' = [tpc EXCEPT ![t] = "get"]
    /\ th' = [th EXCEPT ![t] = Some(h)]
    /\ UNCHANGED <<live, cell, built, engines, tnew, tret, calls>>
    /\ UNCHANGED <<given, dropped, panics>>
    /\ UNCHANGED <<renderVars, fnsVars>>

\* line 216-217, get_or_init on an initialised cell: the value, cloned
GetReturns(t) ==
    /\ tpc[t] = "get"
    /\ cell[Val(th[t])].state = "complete"
    /\ tret' = [tret EXCEPT ![t] = Append(@, Val(cell[Val(th[t])].value))]
    /\ calls' = [calls EXCEPT ![Val(th[t])] = Append(@, Val(cell[Val(th[t])].value))]
    /\ tpc' = [tpc EXCEPT ![t] = "idle"]
    /\ th' = [th EXCEPT ![t] = None]
    /\ UNCHANGED <<live, cell, built, engines, tnew>>
    /\ UNCHANGED <<given, dropped, panics>>
    /\ UNCHANGED <<renderVars, fnsVars>>

\* get_or_init may run the closure when the cell is in this state; a caller
\* that finds the cell running waits until it is complete
MayInitUnlessComplete(c) == c.state # "complete"
MayInitAlways(c) == c.state # "running"
MayInit(c) == c.state = "incomplete"

\* line 216, get_or_init on an empty cell: the caller that moves the cell
\* from incomplete to running is the one to run the closure
GetWins(t) ==
    /\ tpc[t] = "get"
    /\ MayInit(cell[Val(th[t])])
    /\ cell' = [cell EXCEPT ![Val(th[t])].state = "running"]
    /\ tpc' = [tpc EXCEPT ![t] = "init"]
    /\ UNCHANGED <<live, built, engines, th, tnew, tret, calls>>
    /\ UNCHANGED <<given, dropped, panics>>
    /\ UNCHANGED <<renderVars, fnsVars>>

\* line 216, the closure: SsrRenderer::shared(self.config.incremental.clone())
InitClosure(t) ==
    /\ tpc[t] = "init"
    /\ engines' = engines + 1
    /\ built' = [built EXCEPT ![Val(th[t])] = @ + 1]
    /\ tnew' = [tnew EXCEPT ![t] = Some(engines + 1)]
    /\ tpc' = [tpc EXCEPT ![t] = "set"]
    /\ UNCHANGED <<live, cell, th, tret, calls>>
    /\ UNCHANGED <<given, dropped, panics>>
    /\ UNCHANGED <<renderVars, fnsVars>>

\* lines 216-217: the closure's engine is stored, the cell completes, and the
\* call returns a clone of the stored Arc
InitStores(t) ==
    /\ tpc[t] = "set"
    /\ LET v == IF cell[Val(th[t])].value = None THEN tnew[t]
                ELSE cell[Val(th[t])].value
       IN /\ cell' = [cell EXCEPT ![Val(th[t])] = [state |-> "complete", value |-> v]]
          /\ tret' = [tret EXCEPT ![t] = Append(@, Val(v))]
          /\ calls' = [calls EXCEPT ![Val(th[t])] = Append(@, Val(v))]
    /\ tnew' = [tnew EXCEPT ![t] = None]
    /\ tpc' = [tpc EXCEPT ![t] = "idle"]
    /\ th' = [th EXCEPT ![t] = None]
    /\ UNCHANGED <<live, built, engines>>
    /\ UNCHANGED <<given, dropped, panics>>
    /\ UNCHANGED <<renderVars, fnsVars>>

\* line 170, #[derive(Clone)]: OnceCell::clone gives a new cell holding a
\* clone of the value when there is one, and an empty cell otherwise
CloneHandle(h, h2) ==
    /\ h \in live
    /\ h2 \notin live
    /\ live' = live \cup {h2}
    /\ cell' = [cell EXCEPT ![h2] =
                   IF cell[h].state = "complete"
                   THEN [state |-> "complete", value |-> cell[h].value]
                   ELSE EmptyCell]
    /\ UNCHANGED <<built, engines, tpc, th, tnew, tret, calls>>
    /\ UNCHANGED <<given, dropped, panics>>
    /\ UNCHANGED <<renderVars, fnsVars>>

MaxWith == 2          \* with_ssr_state calls in all
\* engines built elsewhere and handed to with_ssr_state
SuppliedEngines == {-1, -2}

\* with_ssr_state calls made so far, on the handles up to h
RECURSIVE WithCalls(_)
WithCalls(h) == IF h = 0 THEN panics ELSE Len(given[h]) + WithCalls(h - 1)

\* line 207: the cell with_ssr_state calls set on
CellBeforeSet(c) == EmptyCell

\* lines 206-212: with_ssr_state(self, ssr_state).  It takes the handle by
\* value, so no ssr_state() call is running on the handle.  set fails, and
\* the call panics, when the cell it is called on already holds a value.
WithSsrState(h, e) ==
    /\ h \in live
    /\ \A t \in Threads : th[t] # Some(h)
    /\ WithCalls(NumHandles) < MaxWith
    /\ LET c == CellBeforeSet(cell[h])
       IN IF c.state = "complete"
          THEN /\ panics' = panics + 1
               /\ UNCHANGED <<cell, given, dropped>>
          ELSE /\ cell' = [cell EXCEPT ![h] = [state |-> "complete", value |-> Some(e)]]
               /\ given' = [given EXCEPT ![h] =
                               Append(@, [engine |-> e, calls |-> Len(calls[h]),
                                          built |-> built[h]])]
               /\ dropped' = [dropped EXCEPT ![h] =
                                 IF cell[h].state = "complete"
                                 THEN @ \cup {Val(cell[h].value)} ELSE @]
               /\ UNCHANGED panics
    /\ UNCHANGED <<live, built, engines, tpc, th, tnew, tret, calls>>
    /\ UNCHANGED <<renderVars, fnsVars>>

NextCell ==
    \/ \E t \in Threads, h \in Handles : SsrStateCall(t, h)
    \/ \E t \in Threads : GetReturns(t)
    \/ \E t \in Threads : GetWins(t)
    \/ \E t \in Threads : InitClosure(t)
    \/ \E t \in Threads : InitStores(t)
    \/ \E h \in Handles, h2 \in Handles : CloneHandle(h, h2)

(***************************************************************************)
(* The specifications.                                                      *)
(***************************************************************************)
vars == <<renderVars, fnsVars, cellVars>>

\* a component that takes no step: its variables at rest
IdleRender ==
    /\ racc = [q \in RenderReqs |-> None]
    /\ rpc = [q \in RenderReqs |-> "done"]
    /\ rcalls = [q \in RenderReqs |-> <<>>]
    /\ rout = [q \in RenderReqs |-> None]
    /\ rres = [q \in RenderReqs |-> None]
IdleFns ==
    /\ req = [r \in Reqs |-> NoReq]
    /\ user = [r \in Reqs |-> NoUser]
    /\ pc = [r \in Reqs |-> "absent"]
    /\ strat = [r \in Reqs |-> "direct"]
    /\ InitFnsRest

\* handle_server_fns_inner, one request, every input
Init == IdleRender /\ InitFns /\ InitCell
Next == NextFns
Spec == Init /\ [][Next]_vars

\* handle_server_fns_inner, every request issued at once
InitC == IdleRender /\ InitConc /\ InitCell
SpecConc == InitC /\ [][NextFns]_vars

\* render_handler
InitR == InitRender /\ IdleFns /\ InitCell
SpecRender == InitR /\ [][NextRender]_vars

\* RenderHandleState: ssr_state() and Clone
InitS == IdleRender /\ IdleFns /\ InitCell
SpecCell == InitS /\ [][NextCell]_vars

\* handle_server_fns_inner under both strategies, with cancellation, beside
\* a handle whose engine is built or not
InitHandleAny ==
    /\ \E e \in {None, Some(1)} :
          /\ cell = [h \in Handles |->
                        IF h = 1 /\ e # None
                        THEN [state |-> "complete", value |-> e] ELSE EmptyCell]
          /\ built = [h \in Handles |-> IF h = 1 /\ e # None THEN 1 ELSE 0]
          /\ engines = IF e = None THEN 0 ELSE 1
    /\ live = {1}
    /\ tpc = [t \in Threads |-> "idle"]
    /\ th = [t \in Threads |-> None]
    /\ tnew = [t \in Threads |-> None]
    /\ tret = [t \in Threads |-> <<>>]
    /\ calls = [h \in Handles |-> <<>>]
    /\ given = [h \in Handles |-> <<>>]
    /\ dropped = [h \in Handles |-> {}]
    /\ panics = 0
InitT == IdleRender /\ InitStrat /\ InitHandleAny
NextStrat ==
    \/ NextFns
    \/ \E r \in Reqs : Join(r)
    \/ \E r \in Reqs : Cancel(r)
SpecStrat == InitT /\ [][NextStrat]_vars

\* both handlers, given requests with the same Accept header
InitClassify ==
    /\ \E a \in AcceptInputs :
          /\ racc = [q \in RenderReqs |-> a]
          /\ req = [r \in Reqs |->
                       IF r = 1
                       THEN [path |-> KnownPath, accept |-> a, referer |-> Some(RefererValue)]
                       ELSE NoReq]
    /\ rpc = [q \in RenderReqs |-> "new"]
    /\ rcalls = [q \in RenderReqs |-> <<>>]
    /\ rout = [q \in RenderReqs |-> None]
    /\ rres = [q \in RenderReqs |-> None]
    /\ user = [r \in Reqs |-> IF r = 1 THEN PlainUser ELSE NoUser]
    /\ pc = [r \in Reqs |-> IF r = 1 THEN "new" ELSE "absent"]
    /\ strat = [r \in Reqs |-> "direct"]
    /\ InitFnsRest
    /\ InitCell
NextClassify == NextRender \/ NextFns
SpecClassify == InitClassify /\ [][NextClassify]_vars

\* RenderHandleState: with_ssr_state as well
\* with_ssr_state takes the handle by value: the thread that owns it
BuildThreads == {1}

NextBuild ==
    \/ \E t \in BuildThreads, h \in Handles : SsrStateCall(t, h)
    \/ \E t \in BuildThreads : GetReturns(t)
    \/ \E t \in BuildThreads : GetWins(t)
    \/ \E t \in BuildThreads : InitClosure(t)
    \/ \E t \in BuildThreads : InitStores(t)
    \/ \E h \in Handles, h2 \in Handles : CloneHandle(h, h2)
    \/ \E h \in Handles, e \in SuppliedEngines : WithSsrState(h, e)
SpecBuild == InitS /\ [][NextBuild]_vars

(***************************************************************************)
(* Properties of handle_server_fns_inner.                                   *)
(***************************************************************************)
Done(r) == pc[r] = "done"
Registered(r) == req[r].path \in Registry
Final(r) == Val(res[r])
ProcOwn(r) == Val(hist[r].proc)
AfterHeuristic(r) == Val(hist[r].heur)
AtMerge(r) == Val(hist[r].ovm)

\* "the request's Accept header contains text/html", as the words say it
AcceptContainsTextHtml(acc) == acc # None /\ Contains(Val(acc), TextHtml)

\* a form post answered by a registered procedure that sets no Location
FormPostNoLocation(r) ==
    /\ Done(r) /\ Registered(r)
    /\ AcceptContainsTextHtml(req[r].accept)
    /\ req[r].referer # None
    /\ ProcOwn(r).headers["location"] = <<>>

\* a form post answered by a registered procedure that sets a Location
FormPostWithLocation(r) ==
    /\ Done(r) /\ Registered(r)
    /\ AcceptContainsTextHtml(req[r].accept)
    /\ req[r].referer # None
    /\ ProcOwn(r).headers["location"] # <<>>

\* C1, as stated: a form post (Accept contains text/html, Referer R) to a
\* registered procedure whose response sets no Location is answered 302 with
\* Location R, whatever the context's headers hold.
C1_AsStated ==
    \A r \in Reqs :
        FormPostNoLocation(r) =>
            /\ Final(r).status = FOUND
            /\ Final(r).headers["location"] = <<Val(req[r].referer)>>

\* C1, amended: when the Accept value is a visible-ASCII string containing
\* text/html, the request has a Referer R and the procedure's response sets no
\* Location, the final status is 302 and the heuristic sets Location R; the
\* final Location is R unless the context's headers hold a Location, which
\* the merge puts in its place.
C1_RedirectToReferer ==
    \A r \in Reqs :
        (FormPostNoLocation(r) /\ ToStrOk(Val(req[r].accept))) =>
            /\ Final(r).status = FOUND
            /\ AfterHeuristic(r).headers["location"] = <<Val(req[r].referer)>>
            /\ Final(r).headers["location"] =
                  IF AtMerge(r)["location"] = <<>>
                  THEN <<Val(req[r].referer)>>
                  ELSE AtMerge(r)["location"]

C1_Witness ==
    \E r \in Reqs :
        /\ FormPostNoLocation(r) /\ ToStrOk(Val(req[r].accept))
        /\ AtMerge(r)["set-cookie"] # <<>>
        /\ AtMerge(r)["location"] = <<>>
        /\ Final(r).status = FOUND
        /\ Final(r).headers["location"] = <<RefererValue>>

\* C2, as stated: a form post to a registered procedure whose response sets
\* Location L is answered with Location L and the procedure's status.
C2_AsStated ==
    \A r \in Reqs :
        FormPostWithLocation(r) =>
            /\ Final(r).headers["location"] = ProcOwn(r).headers["location"]
            /\ Final(r).status = ProcOwn(r).status

\* C2, amended: for such a request the redirect heuristic leaves the
\* procedure's response as it is, the final status is the procedure's, and
\* the final Location is L unless the context's headers hold a Location,
\* which the merge puts in its place.
C2_KeepsProcedureLocation ==
    \A r \in Reqs :
        FormPostWithLocation(r) =>
            /\ AfterHeuristic(r) = ProcOwn(r)
            /\ Final(r).status = ProcOwn(r).status
            /\ Final(r).headers["location"] =
                  IF AtMerge(r)["location"] = <<>>
                  THEN ProcOwn(r).headers["location"]
                  ELSE AtMerge(r)["location"]

C2_Witness ==
    \E r \in Reqs :
        /\ FormPostWithLocation(r) /\ ToStrOk(Val(req[r].accept))
        /\ AtMerge(r)["location"] = <<>>
        /\ Final(r).status = 303
        /\ Final(r).headers["location"] = <<"/other">>

\* C3: every header the request's user code (hook, procedure) wrote to the
\* context's response parts is in the final response, with the values those
\* writes left under its name (the procedure never reads them back), and a header the procedure set on its own response under a name the user
\* code did not write keeps its values.
C3_ContextHeadersReachResponse ==
    \A r \in Reqs :
        (Done(r) /\ Registered(r)) =>
            \A n \in HeaderNames :
                /\ hist[r].wrote[n] # <<>> =>
                      Final(r).headers[n] = hist[r].wrote[n]
                /\ (hist[r].wrote[n] = <<>> /\ ProcOwn(r).headers[n] # <<>>) =>
                      Final(r).headers[n] = ProcOwn(r).headers[n]

C3_Witness ==
    \E r \in Reqs :
        /\ Done(r) /\ Registered(r)
        /\ hist[r].ops > 0
        /\ Len(hist[r].wrote["set-cookie"]) = 2
        /\ hist[r].wrote["location"] = <<>>
        /\ ProcOwn(r).headers["location"] # <<>>
        /\ Final(r).headers["location"] = <<"/other">>
        /\ Final(r).headers["set-cookie"] = hist[r].wrote["set-cookie"]

\* the values of a header, as a set
Values(vs) == {vs[i] : i \in 1..Len(vs)}

\* C4, as stated: the merge appends; a header name held both by the response
\* (after the heuristic) and by the context's headers keeps every value it
\* had, with the context's values added.
C4_AsStated ==
    \A r \in Reqs :
        (Done(r) /\ Registered(r)) =>
            \A n \in HeaderNames :
                (AfterHeuristic(r).headers[n] # <<>> /\ AtMerge(r)[n] # <<>>) =>
                    /\ Values(AfterHeuristic(r).headers[n])
                          \subseteq Values(Final(r).headers[n])
                    /\ Values(AtMerge(r)[n]) \subseteq Values(Final(r).headers[n])

\* C4, amended: the merge replaces by name; a header name the context's
\* headers hold has exactly the context's values in the final response (any
\* value the response had under that name is dropped), and every other name
\* keeps the values it had after the heuristic.
C4_MergeReplacesByName ==
    \A r \in Reqs :
        (Done(r) /\ Registered(r)) =>
            \A n \in HeaderNames :
                Final(r).headers[n] =
                    IF AtMerge(r)[n] # <<>> THEN AtMerge(r)[n]
                    ELSE AfterHeuristic(r).headers[n]

C4_Witness ==
    \E r \in Reqs :
        /\ Done(r) /\ Registered(r)
        /\ AfterHeuristic(r).headers["set-cookie"] = <<"a=1">>
        /\ Len(AtMerge(r)["set-cookie"]) = 2
        /\ Final(r).headers["set-cookie"] = AtMerge(r)["set-cookie"]

\* C10: a request whose path is not registered is answered 400 with a body
\* that holds the path; no context is built, the hook and the procedure are
\* not run, and neither the heuristic nor the merge is applied.
C10_UnregisteredPath ==
    \A r \in Reqs :
        (pc[r] # "absent" /\ ~Registered(r)) =>
            /\ pc[r] \in {"new", "done"}
            /\ ctx[r] = None /\ saved[r] = None
            /\ hist[r] = NoHist
            /\ \A c \in CtxIds : overrides[c] = EmptyHeaders
            /\ Done(r) =>
                  /\ Final(r).status = BAD_REQUEST
                  /\ \E i \in 1..Len(Final(r).body) : Final(r).body[i] = req[r].path
                  /\ Final(r).headers = EmptyHeaders

C10_Witness ==
    \E r \in Reqs :
        /\ Done(r) /\ ~Registered(r)
        /\ req[r].accept = Some(AcceptHtml) /\ req[r].referer = Some(RefererValue)
        /\ Final(r).status = BAD_REQUEST

\* C6: a context lookup made inside a request's procedure returns that
\* request's context, at every point of every interleaving and on whichever
\* worker the procedure is polled, and never another request's context.
C6_AmbientContextIsOwn ==
    \A r \in Reqs :
        /\ pc[r] = "polling" => ambient[Val(on[r])] = Val(ctx[r])
        /\ \A c \in hist[r].lookups : c = Val(ctx[r])
        /\ \A r2 \in Reqs \ {r} :
              ctx[r2] # None => Val(ctx[r2]) \notin hist[r].lookups

C6_Witness ==
    \E r \in Reqs, r2 \in Reqs :
        /\ r # r2
        /\ pc[r] = "polling" /\ pc[r2] = "polling"
        /\ hist[r].susp > 0 /\ hist[r2].susp > 0
        /\ hist[r].ops = MaxProcOps /\ hist[r2].ops > 0
        /\ prev[r] = Some(DefaultCtx)

(***************************************************************************)
(* Properties of RenderHandleState::ssr_state.                              *)
(***************************************************************************)
\* C5: however the first ssr_state() calls on a fresh handle interleave, one
\* engine at most is built for the handle, exactly one once a call has
\* returned, and every call on the handle, first or later, returns the engine
\* the handle's cell holds.
C5_OneEnginePerHandle ==
    /\ \A h \in Handles : built[h] <= 1
    /\ calls[1] # <<>> => built[1] = 1
    /\ \A h \in Handles : \A i \in 1..Len(calls[h]) :
          /\ cell[h].state = "complete"
          /\ calls[h][i] = Val(cell[h].value)

\* two first calls race on the fresh handle: one has run the initialiser and
\* is about to store its engine while the other waits inside get_or_init
C5_Witness ==
    \E t \in Threads, u \in Threads :
        /\ t # u
        /\ tpc[t] = "set" /\ th[t] = Some(1)
        /\ tpc[u] = "get" /\ th[u] = Some(1)
        /\ tret[t] = <<>> /\ tret[u] = <<>>

\* C11: with_ssr_state on a handle whose cell already holds an engine (put
\* there by an earlier with_ssr_state or by ssr_state()) panics; the engine
\* the cell holds is never replaced by another one.
C11_AsStated ==
    /\ \A h \in Handles : dropped[h] = {}
    /\ \A h \in Handles : Len(given[h]) <= 1
    /\ \A h \in Handles : \A i \in 1..Len(given[h]) : given[h][i].built = 0

C18_AsStated ==
    /\ engines <= 1
    /\ \A h \in Handles, h2 \in Handles :
          \A i \in 1..Len(calls[h]), j \in 1..Len(calls[h2]) :
              calls[h][i] = calls[h2][j]

\* C12: within one call the context's response parts are read and applied
\* once, after the procedure has completed and after the redirect heuristic;
\* before that nothing of them is read or applied; every change the hook and
\* the procedure made to the headers before is in what the merge reads, and
\* the merge leaves the context's headers drained.
C12_MergeOnceAfterCompletion ==
    \A r \in Reqs :
        /\ hist[r].merges <= 1
        /\ hist[r].merges = 0 =>
              (hist[r].proc = None /\ hist[r].ovm = None /\ (Registered(r) => res[r] = None))
        /\ (ctx[r] # None /\ hist[r].merges = 0) =>
              overrides[Val(ctx[r])] = hist[r].wrote
        /\ hist[r].merges = 1 =>
              /\ hist[r].log = <<"hook", "execute", "heuristic", "merge">>
              /\ AfterHeuristic(r) = Redirect(ProcOwn(r), Val(saved[r]))
              /\ AtMerge(r) = hist[r].wrote
              /\ hist[r].mctx = ctx[r]
              /\ overrides[Val(ctx[r])] = EmptyHeaders
        /\ (Done(r) /\ Registered(r)) =>
              /\ hist[r].merges = 1
              /\ Final(r).status = AfterHeuristic(r).status
              /\ Final(r).body = AfterHeuristic(r).body
              /\ \A n \in HeaderNames :
                    Final(r).headers[n] =
                        IF AtMerge(r)[n] # <<>> THEN AtMerge(r)[n]
                        ELSE AfterHeuristic(r).headers[n]

\* the hook and the procedure (twice, over a suspension) changed the headers
\* before the merge, and the heuristic redirected
C12_Witness ==
    \E r \in Reqs :
        /\ Done(r) /\ Registered(r)
        /\ hist[r].ops = MaxProcOps /\ hist[r].susp > 0
        /\ \A n \in HeaderNames : hist[r].wrote[n] # <<>>
        /\ AfterHeuristic(r).status = FOUND
        /\ AfterHeuristic(r) # ProcOwn(r)
        /\ Final(r).headers = AtMerge(r)

\* C15: for a request to a registered procedure the hook is called once, on
\* the context just built for the request, before the procedure is first
\* polled; that context is the one every poll of the procedure binds and the
\* one whose response parts the merge reads.
C15_HookOnceOnOwnContext ==
    \A r \in Reqs :
        /\ hist[r].hook <= 1
        /\ (Registered(r) /\ pc[r] \notin {"absent", "new"}) =>
              /\ hist[r].hook = 1
              /\ hist[r].fresh
              /\ hist[r].log # <<>> /\ hist[r].log[1] = "hook"
              /\ \A i \in 2..Len(hist[r].log) : hist[r].log[i] # "hook"
              /\ hist[r].hookctx = ctx[r]
              /\ hist[r].bound \subseteq {Val(ctx[r])}
              /\ hist[r].mctx \in {None, ctx[r]}
        /\ (hist[r].ops > 0 \/ hist[r].bound # {}) => hist[r].hook = 1
        /\ (Done(r) /\ Registered(r)) =>
              /\ hist[r].bound = {Val(ctx[r])}
              /\ hist[r].mctx = ctx[r]
        /\ ~Registered(r) => hist[r].hook = 0

\* the hook wrote a header, the procedure another, and both are merged
C15_Witness ==
    \E r \in Reqs :
        /\ Done(r) /\ Registered(r)
        /\ hist[r].hook = 1 /\ hist[r].ops = 1 /\ hist[r].susp > 0
        /\ hist[r].wrote["location"] = <<"c1">>
        /\ hist[r].wrote["set-cookie"] = <<"c2">>
        /\ Final(r).headers["location"] = <<"c1">>
        /\ Final(r).headers["set-cookie"] = <<"c2">>

\* C16, as stated: whatever the context's response parts hold, the final
\* status is 302 exactly when the Accept value contains text/html, a Referer
\* is present and the procedure's response has no Location, and the status
\* the procedure returned otherwise.
C16_AsStated ==
    \A r \in Reqs :
        (Done(r) /\ Registered(r)) =>
            Final(r).status =
                IF /\ AcceptContainsTextHtml(req[r].accept)
                   /\ req[r].referer # None
                   /\ ProcOwn(r).headers["location"] = <<>>
                THEN FOUND
                ELSE ProcOwn(r).status

\* C16, amended: the merge leaves the status as the heuristic left it,
\* whatever the context's response parts hold; the final status is 302 when
\* the Accept value is a visible-ASCII string containing text/html, a Referer
\* is present and the procedure's response has no Location, and the status
\* the procedure returned otherwise.
C16_MergeKeepsStatus ==
    \A r \in Reqs :
        (Done(r) /\ Registered(r)) =>
            /\ Final(r).status = AfterHeuristic(r).status
            /\ Final(r).status =
                  IF /\ AcceptContainsTextHtml(req[r].accept)
                     /\ ToStrOk(Val(req[r].accept))
                     /\ req[r].referer # None
                     /\ ProcOwn(r).headers["location"] = <<>>
                  THEN FOUND
                  ELSE ProcOwn(r).status

\* the context held a status override and a Location at the merge, and the
\* response keeps the procedure's status
C16_Witness ==
    \E r \in Reqs :
        /\ Done(r) /\ Registered(r)
        /\ hist[r].ovs = Some(418)
        /\ AtMerge(r)["location"] # <<>>
        /\ req[r].referer = None
        /\ ProcOwn(r).status = 303
        /\ Final(r).status = 303

HandleUntouched ==
    /\ live = {1} /\ engines \in {0, 1}
    /\ \A h \in Handles : calls[h] = <<>> /\ built[h] = (IF h = 1 THEN engines ELSE 0)
    /\ \A h \in Handles :
          cell[h] = IF h = 1 /\ engines = 1
                    THEN [state |-> "complete", value |-> Some(1)] ELSE EmptyCell
    /\ \A t \in Threads : tpc[t] = "idle"

\* C17, as stated: for a request cancelled while the handler was suspended
\* awaiting the procedure no response is produced and neither the redirect
\* heuristic nor the merge is ever run, and the Rendering Cache Handle is as
\* it was.
C17_AsStated ==
    /\ \A r \in Reqs :
          handler[r] = "dropped" =>
              /\ res[r] = None
              /\ hist[r].heur = None
              /\ hist[r].merges = 0
    /\ HandleUntouched

\* C17, amended: for a cancelled request no response is produced; when the
\* procedure is awaited directly its future is dropped with the handler's,
\* and neither the heuristic nor the merge is run; a spawned task is
\* detached and may run both, its output never returned.  No step of
\* Procedure Dispatch, cancelled or not, changes the Rendering Cache Handle.
C17_CancelledDirectAwait ==
    [][/\ \A r \in Reqs :
            handler'[r] = "dropped" =>
                /\ res'[r] = None
                /\ strat[r] = "direct" =>
                      /\ pc'[r] = "cancelled"
                      /\ hist'[r].heur = None
                      /\ hist'[r].merges = 0
                      /\ hist'[r] = hist[r]
                /\ strat[r] = "local" => pc'[r] # "done"
       /\ cellVars' = cellVars]_vars

\* a directly awaited request cancelled after its procedure had changed
\* the context and suspended, beside a handle whose engine is built
C17_Witness ==
    \E r \in Reqs :
        /\ strat[r] = "direct" /\ handler[r] = "dropped" /\ pc[r] = "cancelled"
        /\ hist[r].ops > 0 /\ hist[r].susp > 0
        /\ res[r] = None /\ hist[r].merges = 0
        /\ cell[1].state = "complete"

(***************************************************************************)
(* Properties of render_handler.                                            *)
(***************************************************************************)
RenderDone(q) == rpc[q] = "done"
RenderFinal(q) == Val(rres[q])

\* C7, as stated: a request whose Accept value does not contain text/html is
\* answered 406 and never reaches the engine's respond.
C7_AsStated ==
    \A q \in RenderReqs :
        (racc[q] # None /\ ~Contains(Val(racc[q]), TextHtml)) =>
            /\ rcalls[q] = <<>>
            /\ RenderDone(q) => RenderFinal(q).status = NOT_ACCEPTABLE

\* C7, amended: a request whose Accept value does not contain text/html in
\* any letter case is answered 406 (with nothing else done) and never reaches
\* the engine's respond.
C7_NotAcceptable ==
    \A q \in RenderReqs :
        (racc[q] # None /\ ~Contains(ToAsciiLowercase(Val(racc[q])), TextHtml)) =>
            /\ rcalls[q] = <<>> /\ rout[q] = None
            /\ rpc[q] # "awaiting"
            /\ RenderDone(q) =>
                  RenderFinal(q) = [status |-> NOT_ACCEPTABLE, body |-> EmptyBody]

C7_Witness ==
    \E q \in RenderReqs :
        /\ racc[q] = Some(AcceptJson)
        /\ RenderDone(q)
        /\ RenderFinal(q).status = NOT_ACCEPTABLE

\* what the engine's respond returned, as a response
EngineResponse(q) == [status |-> Val(rout[q]).status, body |-> Val(rout[q]).body]

\* C8, as stated: a request with no Accept header, or one containing
\* text/html, reaches the engine's respond exactly once, with that request,
\* and a successful response of the engine is returned as it is.
C8_AsStated ==
    \A q \in RenderReqs :
        (RenderDone(q) /\ (racc[q] = None \/ Contains(Val(racc[q]), TextHtml))) =>
            /\ rcalls[q] = <<q>>
            /\ Val(rout[q]).kind = "ok" => RenderFinal(q) = EngineResponse(q)

\* C8, amended: a request with no Accept header, or with one whose value is
\* a visible-ASCII string containing text/html, reaches the engine's respond
\* exactly once, with that request, and a successful response of the engine
\* is returned as it is.
C8_RespondOnce ==
    \A q \in RenderReqs :
        (racc[q] = None \/ (ToStrOk(Val(racc[q])) /\ Contains(Val(racc[q]), TextHtml))) =>
            /\ rpc[q] # "new" => rcalls[q] = <<q>>
            /\ RenderDone(q) =>
                  /\ rout[q] # None
                  /\ Val(rout[q]).kind = "ok" => RenderFinal(q) = EngineResponse(q)

C8_Witness ==
    \E q \in RenderReqs :
        /\ racc[q] = Some(AcceptList)
        /\ RenderDone(q)
        /\ rcalls[q] = <<q>>
        /\ Val(rout[q]).kind = "ok"
        /\ RenderFinal(q).status = 404

\* C9: when the engine's respond fails with Error::Http(s) the response has
\* status s; when it fails with any other error the status is 500; the body
\* is empty in both cases.
C9_ErrorMapping ==
    \A q \in RenderReqs :
        (RenderDone(q) /\ rout[q] # None /\ Val(rout[q]).kind # "ok") =>
            /\ RenderFinal(q).body = EmptyBody
            /\ RenderFinal(q).status =
                  IF Val(rout[q]).kind = "http" THEN Val(rout[q]).status
                  ELSE INTERNAL_SERVER_ERROR

C9_Witness ==
    \E q \in RenderReqs, q2 \in RenderReqs :
        /\ RenderDone(q) /\ RenderDone(q2)
        /\ rout[q] # None /\ rout[q2] # None
        /\ Val(rout[q]).kind = "http" /\ RenderFinal(q).status = 503
        /\ Val(rout[q2]).kind = "other" /\ RenderFinal(q2).status = INTERNAL_SERVER_ERROR


(***************************************************************************)
(* Properties of the two handlers together.                                 *)
(***************************************************************************)
\* C19: for every Accept value present on a request, handle_server_fns_inner
\* takes the request as accepting HTML exactly when render_handler does not
\* answer 406 to a request with the same Accept value, values that spell
\* text/html in another letter case included.
C19_AsStated ==
    \A r \in Reqs, q \in RenderReqs :
        (/\ saved[r] # None /\ RenderDone(q)
         /\ racc[q] # None /\ racc[q] = req[r].accept) =>
            (Val(saved[r]).accepts_html <=> RenderFinal(q).status # NOT_ACCEPTABLE)

====
